---- MODULE Spec2Model ----
(***************************************************************************)
(* The router built by src/middleware/auth.js: the session middleware, the *)
(* context middleware, the login, logout and callback routes and the       *)
(* access gate, driven by one browser (one cookie jar) that sends its      *)
(* requests one after the other.                                           *)
(*                                                                         *)
(* A request walks the router's stack in steps (pc).  The callback route   *)
(* is the chain of lines 76-121: the async handler (suspended once at the  *)
(* await of client.callback), config.handleCallback, and the finalize      *)
(* handler.                                                                *)
(*                                                                         *)
(* An optional value is a sequence of length at most one: <<>> is          *)
(* JavaScript's undefined, <<v>> the value v.                              *)
(***************************************************************************)
EXTENDS Integers, Sequences, FiniteSets, TLC

\* ---------------------------------------------------------------- bounds
\* Login attempts the browser starts (each draws a fresh nonce and state).
MaxLogins == 2
\* Length of the configured identityClaimFilter array.
MaxFilterLen == 1

\* ---------------------------------------------------------------- values
Undefined == <<>>
Some(v) == <<v>>

TransientNames == {"nonce", "state", "returnTo"}
ClaimNames == {"sub", "email"}
Absent == "absent"
\* A claims object: every name of ClaimNames is either absent or has a value.
ClaimsObjects == [ClaimNames -> {Absent, "v1"}]
NoClaims == [c \in ClaimNames |-> Absent]
\* What the identity provider puts into an ID token: sub is always there.
TokenClaims == {m \in ClaimsObjects : m["sub"] # Absent}

baseURL == "https://app.example"
otherURL == "/profile"
ReturnTos == {baseURL, otherURL}

Methods == {"get", "post"}
Paths == {"login", "logout", "callback", "other"}

\* The state parameter 0 is a value no login ever stored ("WRONG"); the code
\* parameter 0 is a code the identity provider never issued.
ParamValues == 0..MaxLogins

BoundedSeqs(S, n) == UNION {[1..k -> S] : k \in 0..n}

VARIABLES
  config,        \* getConfig(params): fixed when the router is constructed
  transient,     \* the cookie jar's transient entries: name -> optional value
  sessionCookie, \* the cookie jar's session cookie: optional claims object
  logins,        \* logins[k]: the returnTo stored by login attempt k
  consumed,      \* a callback has read the state entry of the latest login
  client,        \* the promise of getClient(config): "ok" or "failed"
  req,           \* the request in flight: its inputs and its req.* fields
  pc,            \* where the request in flight stands in the router's stack
  obs            \* what the request in flight has done so far

vars == <<config, client, transient, sessionCookie, logins, consumed, req, pc, obs>>

\* ---------------------------------------------------------------- config
Configs ==
  [ response_mode : {"query", "form_post"},
    appSessionSecret : BOOLEAN,
    routes : BOOLEAN,
    required : {"false", "true", "function"},
    identityClaimFilter : BoundedSeqs(ClaimNames, MaxFilterLen) ]

\* const callbackMethod = ('form_post' === response_mode ? 'post' : 'get')
callbackMethod == IF config.response_mode = "form_post" THEN "post" ELSE "get"

\* ------------------------------------------------------ transient store
\* transient.getOnce(key, req, res): the value read ...
getOnce(t, key) == t[key]
\* ... and the store after it: the entry is cleared by the read.
Cleared(t, key) == [t EXCEPT ![key] = Undefined]

NoTransient == [n \in TransientNames |-> Undefined]

\* One getOnce call on the store st.t, counted in st.reads.
Consume(st, key) ==
  [t |-> Cleared(st.t, key), reads |-> [st.reads EXCEPT ![key] = @ + 1]]

\* ------------------------------------------------------- request records
NoReads == [n \in TransientNames |-> 0]

NoObs ==
  [ reads |-> NoReads,      \* getOnce calls per transient name
    exchanges |-> 0,        \* client.callback calls
    errors |-> <<>>,        \* errors handed to the error-handling chain
    redirects |-> <<>>,     \* res.redirect targets
    cbCount |-> 0,          \* cb(next).once(): calls that went through
    hcRuns |-> 0,           \* config.handleCallback invocations
    hcNext |-> 0,           \* continuation calls made by config.handleCallback
    finalized |-> 0,        \* runs of the finalize handler
    responded |-> FALSE,    \* a response has been sent
    gated |-> 0,            \* times the request reached the access gate
    predicate |-> <<>>,     \* what the calls of config.required(req) returned
    ctxNext |-> 0,          \* continuation calls made by the context middleware
    passed |-> 0 ]          \* times the request left the router by next()

IdleReq ==
  [ method |-> "get", path |-> "other", malformed |-> FALSE,
    code |-> 0, state |-> 0,
    claims |-> Undefined,      \* req[appSessionName].claims
    claims0 |-> Undefined,     \* the same, as the request arrived
    openidTokens |-> Undefined,
    isAuthenticated |-> FALSE,
    replay |-> FALSE,          \* its state was consumed by an earlier callback
    checks |-> [nonce |-> Undefined, state |-> Undefined] ]

Err(status, cause) == [status |-> status, cause |-> cause]

\* identityClaimFilter is read only under appSessionSecret (line 101): the
\* configurations without the secret are told apart by the others alone.
\* Line 136 calls getClient(config) and drops the promise it returns: the
\* router is returned whether discovery and the client's construction
\* succeed or not.
Init ==
  /\ config \in Configs
  /\ client \in {"ok", "failed"}
  /\ config.appSessionSecret \/ config.identityClaimFilter = <<>>
  /\ transient = NoTransient
  /\ sessionCookie = Undefined
  /\ logins = <<>>
  /\ consumed = FALSE
  /\ req = IdleReq
  /\ pc = "idle"
  /\ obs = NoObs

\* The response leaves the server: the session middleware, when installed
\* (lines 30-37), writes req[appSessionName] into the session cookie.
SavedSession(claims) == IF config.appSessionSecret THEN claims ELSE sessionCookie

\* ------------------------------------------------------------- arrival
\* A router that registers the callback route for every method.
RouteAnyMethod(r) ==
  IF config.routes /\ r.method = "get" /\ r.path = "login" THEN "login"
  ELSE IF config.routes /\ r.method = "get" /\ r.path = "logout" THEN "logout"
  ELSE IF r.path = "callback" THEN "callback"
  ELSE "gate"

\* A router whose gate is installed in front of the routes.
RouteGateFirst(r) ==
  IF config.required # "false" THEN "gate"
  ELSE IF config.routes /\ r.method = "get" /\ r.path = "login" THEN "login"
  ELSE IF config.routes /\ r.method = "get" /\ r.path = "logout" THEN "logout"
  ELSE IF r.method = callbackMethod /\ r.path = "callback" THEN "callback"
  ELSE "gate"

\* The route of the router's stack that matches the request (lines 54-121),
\* or the gate that follows them.
Route(r) ==
  IF config.routes /\ r.method = "get" /\ r.path = "login" THEN "login"
  ELSE IF config.routes /\ r.method = "get" /\ r.path = "logout" THEN "logout"
  ELSE IF r.method = callbackMethod /\ r.path = "callback" THEN "callback"
  ELSE "gate"

\* The requests the browser sends: anything to the callback path, GETs to
\* the others.  Code and state are given with well-formed callbacks alone.
Requests ==
  { r \in [method : Methods, path : Paths, malformed : BOOLEAN,
           code : ParamValues, state : ParamValues] :
      /\ r.path # "callback" => (r.method = "get" /\ ~r.malformed)
      /\ (r.path # "callback" \/ r.malformed) => (r.code = 0 /\ r.state = 0) }

\* The browser sends a request with the cookies of its jar.  The session
\* middleware of lines 30-37 loads req[appSessionName] from the session
\* cookie, and the context middleware of lines 40-52 loads the context.  When
\* load() rejects, next(err) is called and the function goes on to call
\* next() too; by then the error has walked the router's stack to its end,
\* so the second call leaves the router.  load() awaits the client: it
\* rejects when discovery or the client's construction failed.
ContextMiddleware(r, loadOk) ==
  /\ pc = "idle"
  /\ loadOk = (client = "ok")
  /\ r.path = "login" => Len(logins) < MaxLogins
  /\ r.method # callbackMethod => (~r.malformed /\ r.code = 0 /\ r.state = 0)
  /\ LET c == IF config.appSessionSecret THEN sessionCookie ELSE Undefined
     IN req' = [IdleReq EXCEPT !.method = r.method, !.path = r.path,
                               !.malformed = r.malformed,
                               !.code = r.code, !.state = r.state,
                               !.claims = c, !.claims0 = c,
                               !.isAuthenticated = (c # Undefined),
                               !.replay = (consumed /\ r.state = Len(logins))]
  /\ IF loadOk
       THEN /\ pc' = Route(r)
            /\ obs' = [NoObs EXCEPT !.ctxNext = 1]
       ELSE /\ pc' = "done"
            /\ obs' = [NoObs EXCEPT !.errors = Append(@, Err(500, "load")),
                                    !.responded = TRUE,
                                    !.ctxNext = 2,
                                    !.passed = @ + 1]
  /\ UNCHANGED <<config, client, transient, sessionCookie, logins, consumed>>

\* ---------------------------------------------------------------- login
\* res.openid.login({ returnTo }): a fresh nonce and state (those of attempt
\* k) and the returnTo are stored, and the browser is sent to the provider.
LoginStored(k, returnTo) ==
  [nonce |-> Some(k), state |-> Some(k), returnTo |-> Some(returnTo)]

Login(returnTo) ==
  /\ Len(logins) < MaxLogins
  /\ transient' = LoginStored(Len(logins) + 1, returnTo)
  /\ logins' = Append(logins, returnTo)
  /\ obs' = [obs EXCEPT !.redirects = Append(@, "idp"), !.responded = TRUE]
  /\ sessionCookie' = SavedSession(req.claims)
  /\ pc' = "done"
  /\ consumed' = FALSE
  /\ UNCHANGED <<config, client, req>>

\* A login route that leaves the entries of an attempt still under way.
LoginRouteKeepsEntries ==
  /\ pc = "login"
  /\ Len(logins) < MaxLogins
  /\ transient' = IF transient.state = Undefined
                    THEN LoginStored(Len(logins) + 1, baseURL)
                    ELSE transient
  /\ logins' = Append(logins, baseURL)
  /\ obs' = [obs EXCEPT !.redirects = Append(@, "idp"), !.responded = TRUE]
  /\ sessionCookie' = SavedSession(req.claims)
  /\ pc' = "done"
  /\ consumed' = FALSE
  /\ UNCHANGED <<config, client, req>>

\* The login route, lines 57-63.
LoginRoute ==
  /\ pc = "login"
  /\ Login(baseURL)

\* A logout that redirects and leaves the session as it was.
LogoutRouteKeepsSession ==
  /\ pc = "logout"
  /\ obs' = [obs EXCEPT !.redirects = Append(@, "postLogout"), !.responded = TRUE]
  /\ sessionCookie' = SavedSession(req.claims)
  /\ pc' = "done"
  /\ UNCHANGED <<config, client, transient, logins, consumed, req>>

\* The logout route, lines 66-69: res.openid.logout() drops the session and
\* redirects.
LogoutRoute ==
  /\ pc = "logout"
  /\ req' = [req EXCEPT !.claims = Undefined]
  /\ obs' = [obs EXCEPT !.redirects = Append(@, "postLogout"), !.responded = TRUE]
  /\ sessionCookie' = SavedSession(Undefined)
  /\ pc' = "done"
  /\ UNCHANGED <<config, client, transient, logins, consumed>>

\* ------------------------------------------------------------- callback
\* cb(next).once(), line 81: a call goes through only while none has, and
\* is then run on a later tick; every other call is dropped without a trace.
CbOnceFires(count) == count = 0

\* A continuation that, handed an error, reports it and runs the rest of
\* the route all the same.
CbNextErrorGoesOn(o, err) ==
  IF ~CbOnceFires(o.cbCount) THEN <<o, pc>>
  ELSE IF err # Undefined
    THEN <<[o EXCEPT !.cbCount = @ + 1, !.errors = Append(@, err[1])],
           "handleCallback">>
    ELSE <<[o EXCEPT !.cbCount = @ + 1], "handleCallback">>

\* next(err) or next() on the guarded continuation: the request's record
\* and place after the call.  A call that goes through runs the route's next
\* on a later tick: with an error the rest of the route is skipped and the
\* error goes to the error-handling chain, whose response ends the request;
\* without one config.handleCallback is next.
CbNext(o, err) ==
  IF ~CbOnceFires(o.cbCount) THEN <<o, pc>>
  ELSE IF err # Undefined
    THEN <<[o EXCEPT !.cbCount = @ + 1, !.errors = Append(@, err[1]),
                     !.responded = TRUE], "done">>
    ELSE <<[o EXCEPT !.cbCount = @ + 1], "handleCallback">>

\* client.callback(redirectUri, callbackParams, { nonce, state, response_type }):
\* "ok" or the cause of the failure.  The state is checked first; the code
\* is then redeemed at the provider (idp is its answer), and the ID token it
\* returns, which carries the nonce of the attempt the code belongs to, is
\* checked against the expected nonce.
Exchange(code, state, checks, idp) ==
  IF checks.state = Undefined \/ checks.state # Some(state) THEN "state"
  ELSE IF idp = "network" THEN "network"
  ELSE IF idp = "expired" \/ code \notin 1..Len(logins) THEN "code"
  ELSE IF checks.nonce # Some(code) THEN "nonce"
  ELSE "ok"

IdpAnswers == {"ok", "expired", "network"}

\* A handler that reports a network failure as an upstream error.
BadRequestUpstream(cause) == Err(IF cause = "network" THEN 502 ELSE 400, cause)

\* A bug that lets the caught error through as it is (no status: a 500).
BadRequestRethrown(cause) == Err(500, cause)

\* createError.BadRequest(err.message), line 96.
BadRequest(cause) == Err(400, cause)

\* A bug that reads the two entries in place, without clearing them.
ChecksPeeked(st) == [st EXCEPT !.reads = Consume(Consume(st, "nonce"), "state").reads]

\* A bug that consumes the state entry with getOnce and reads the nonce in place.
ChecksStateOnly(st) == [Consume(st, "state") EXCEPT !.reads["nonce"] = @ + 1]

\* A handler that consumes returnTo together with the other two entries.
ChecksWithReturnTo(st) == Consume(Consume(Consume(st, "nonce"), "state"), "returnTo")

\* The store and the reads after the two getOnce calls of lines 91-92.
ChecksConsumed(st) == Consume(Consume(st, "nonce"), "state")

\* The async handler up to its await, lines 80-94.  callbackParams is
\* evaluated first: when it throws, neither getOnce call is made.
CallbackBegin ==
  /\ pc = "callback"
  /\ IF req.malformed
       THEN LET n == CbNext(obs, Some(BadRequest("params")))
            IN /\ obs' = n[1] /\ pc' = n[2]
               /\ req' = req
               /\ transient' = transient
       ELSE /\ req' = [req EXCEPT !.checks = [nonce |-> getOnce(transient, "nonce"),
                                              state |-> getOnce(transient, "state")]]
            /\ LET st == ChecksConsumed([t |-> transient, reads |-> obs.reads])
               IN /\ transient' = st.t
                  /\ obs' = [obs EXCEPT !.reads = st.reads, !.exchanges = @ + 1]
            /\ pc' = "exchange"
  /\ consumed' = IF req.malformed \/ getOnce(transient, "state") # Some(Len(logins))
                   THEN consumed
                   ELSE TRUE
  /\ sessionCookie' = IF pc' = "done" THEN SavedSession(req.claims) ELSE sessionCookie
  /\ UNCHANGED <<config, client, logins>>

\* config.identityClaimFilter.forEach(claim => { delete identityClaims[claim]; })
RECURSIVE DeleteClaims(_, _, _)
DeleteClaims(identityClaims, filter, i) ==
  IF i > Len(filter) THEN identityClaims
  ELSE DeleteClaims([identityClaims EXCEPT ![filter[i]] = Absent], filter, i + 1)

\* A bug that skips the filter.
FilteredClaimsNone(tokenClaims) == tokenClaims

\* let identityClaims = tokenSet.claims(), filtered: lines 102-106.
FilteredClaims(tokenClaims) == DeleteClaims(tokenClaims, config.identityClaimFilter, 1)

\* A handler that assigns the claims whether or not a session is configured.
WithTokensAndClaims(r, tokenClaims) ==
  [r EXCEPT !.openidTokens = Some(tokenClaims),
            !.claims = Some(FilteredClaims(tokenClaims))]

\* A handler that leaves the claims to be assigned after the extension
\* handler.
WithTokensOnly(r, tokenClaims) == [r EXCEPT !.openidTokens = Some(tokenClaims)]

\* What lines 99-109 leave in the request after a successful exchange.
WithTokens(r, tokenClaims) ==
  [r EXCEPT !.openidTokens = Some(tokenClaims),
            !.claims = IF config.appSessionSecret
                         THEN Some(FilteredClaims(tokenClaims))
                         ELSE @]

\* A bug that runs lines 99-109 whether or not the exchange threw.
AfterExchangeAlways(r, outcome, tokenClaims) == WithTokens(r, tokenClaims)

\* The request after lines 88-109: untouched when the exchange threw.
AfterExchange(r, outcome, tokenClaims) ==
  IF outcome = "ok" THEN WithTokens(r, tokenClaims) ELSE r

\* The async handler from the await on, lines 90-114: client.callback settles.
CallbackResume(idp, tokenClaims) ==
  /\ pc = "exchange"
  /\ LET outcome == Exchange(req.code, req.state, req.checks, idp)
         n == CbNext(obs, IF outcome = "ok" THEN Undefined
                                            ELSE Some(BadRequest(outcome)))
     IN /\ outcome # "ok" => tokenClaims = NoClaims
        /\ outcome = "ok" => tokenClaims \in TokenClaims
        /\ req' = AfterExchange(req, outcome, tokenClaims)
        /\ obs' = n[1] /\ pc' = n[2]
  /\ sessionCookie' = IF pc' = "done" THEN SavedSession(req'.claims) ELSE sessionCookie
  /\ UNCHANGED <<config, client, transient, logins, consumed>>

\* config.handleCallback, line 116: the application's extension handler.  It
\* is handed the route's own next, not the guarded one of line 81.
HandleCallbackWays == {"next", "nextTwice", "nextErr", "respond", "never"}

handleCallback(way) ==
  /\ pc = "handleCallback"
  /\ CASE way \in {"next", "nextTwice"} ->
            /\ obs' = [obs EXCEPT !.hcRuns = @ + 1,
                                  !.hcNext = IF way = "next" THEN 1 ELSE 2]
            /\ sessionCookie' = sessionCookie
            /\ pc' = "finalize"
       [] way = "nextErr" ->
            /\ obs' = [obs EXCEPT !.hcRuns = @ + 1, !.hcNext = 1,
                                  !.errors = Append(@, Err(500, "handleCallback")),
                                  !.responded = TRUE]
            /\ sessionCookie' = SavedSession(req.claims)
            /\ pc' = "done"
       [] way = "respond" ->
            /\ obs' = [obs EXCEPT !.hcRuns = @ + 1, !.responded = TRUE]
            /\ sessionCookie' = SavedSession(req.claims)
            /\ pc' = "done"
       [] way = "never" ->
            /\ obs' = [obs EXCEPT !.hcRuns = @ + 1]
            /\ sessionCookie' = sessionCookie
            /\ pc' = "hung"
  /\ UNCHANGED <<config, client, transient, logins, consumed, req>>

\* A bug that drops the stored value.
ReturnToIgnored(value) == baseURL

\* getOnce('returnTo') || config.baseURL, line 118.
ReturnToOr(value) == IF value = Undefined THEN baseURL ELSE value[1]

\* A route in which every next() of the extension handler runs finalize.
AfterFinalizeAgain(o) ==
  IF o.hcNext > 1 /\ o.finalized = 0 THEN "finalize" ELSE "done"

\* Where the request stands after the last handler of the route, line 121:
\* a second next() of the extension handler finds the route's stack
\* exhausted and falls to the layers after the route.
AfterFinalize(o) == IF o.hcNext > 1 THEN "gate" ELSE "done"

\* The finalize handler, lines 117-120.
Finalize ==
  /\ pc = "finalize"
  /\ LET returnTo == ReturnToOr(getOnce(transient, "returnTo"))
         st == Consume([t |-> transient, reads |-> obs.reads], "returnTo")
     IN /\ obs' = [obs EXCEPT !.reads = st.reads,
                              !.finalized = @ + 1,
                              !.responded = TRUE,
                              !.redirects = Append(@, returnTo)]
        /\ transient' = st.t
  /\ sessionCookie' = SavedSession(req.claims)
  /\ pc' = AfterFinalize(obs)
  /\ UNCHANGED <<config, client, logins, consumed, req>>

\* ----------------------------------------------------------------- gate
\* requiresAuth(): an authenticated request continues; any other is turned
\* away, with a 401 or with a redirect to the login route.  Once a response
\* has been sent a redirect can only throw.
GateWays == {"unauthorized", "redirect"}

requiresAuthMiddleware(o, way) ==
  IF req.isAuthenticated
    THEN /\ obs' = [o EXCEPT !.gated = @ + 1, !.passed = @ + 1]
         /\ pc' = "app"
         /\ sessionCookie' = sessionCookie
    ELSE /\ obs' = [o EXCEPT
                      !.gated = @ + 1,
                      !.errors = IF way = "unauthorized"
                                   THEN Append(@, Err(401, "unauthorized"))
                                   ELSE IF o.responded
                                     THEN Append(@, Err(500, "headersSent"))
                                     ELSE @,
                      !.redirects = IF way = "redirect" /\ ~o.responded
                                      THEN Append(@, "loginPath") ELSE @,
                      !.responded = TRUE]
         /\ pc' = "done"
         /\ sessionCookie' = SavedSession(req.claims)

\* A gate that handles the function form of required alone.
GateAppliesFunctionOnly(applies) == config.required = "function" /\ applies

\* A gate whose predicate is read the wrong way round.
GateAppliesInverted(applies) ==
  \/ config.required = "true"
  \/ config.required = "function" /\ ~applies

\* requiresAuthMiddleware runs for the request, lines 123-132: always when
\* required is true, when config.required(req) holds when it is a function.
GateApplies(applies) ==
  \/ config.required = "true"
  \/ config.required = "function" /\ applies

\* The layers after the routes, lines 123-133: no layer when required is
\* falsy, the predicate in front of requiresAuth when it is a function
\* (applies is what it returns; it is not consulted otherwise).
Gate(applies, way) ==
  /\ pc = "gate"
  /\ config.required # "function" => applies = (config.required = "true")
  /\ LET o == [obs EXCEPT !.predicate = IF config.required = "function"
                                          THEN Append(@, applies) ELSE @]
     IN IF GateApplies(applies)
          THEN requiresAuthMiddleware(o, way)
          ELSE /\ way = "unauthorized"
               /\ obs' = [o EXCEPT
                            !.gated = IF config.required = "false" THEN @ ELSE @ + 1,
                            !.passed = @ + 1]
               /\ pc' = "app"
               /\ sessionCookie' = sessionCookie
  /\ UNCHANGED <<config, client, transient, logins, consumed, req>>

\* The application's own handlers behind the router: they answer the request
\* or start a login with res.openid.login({ returnTo }).
AppRespond ==
  /\ pc = "app"
  /\ obs' = [obs EXCEPT !.responded = TRUE]
  /\ sessionCookie' = IF obs.responded THEN sessionCookie ELSE SavedSession(req.claims)
  /\ pc' = "done"
  /\ UNCHANGED <<config, client, transient, logins, consumed, req>>

AppLogin(returnTo) ==
  /\ pc = "app"
  /\ ~obs.responded
  /\ Login(returnTo)

\* The request is over: its response has arrived, or the browser has given
\* up waiting for one.
Settle ==
  /\ pc \in {"done", "hung"}
  /\ pc' = "idle"
  /\ req' = IdleReq
  /\ obs' = NoObs
  /\ UNCHANGED <<config, client, transient, sessionCookie, logins, consumed>>

\* The browser drops a transient cookie between two requests (it expired).
CookieLost(name) ==
  /\ pc = "idle"
  /\ transient[name] # Undefined
  /\ transient' = Cleared(transient, name)
  /\ UNCHANGED <<config, client, sessionCookie, logins, consumed, req, pc, obs>>

Next ==
  \/ \E r \in Requests, loadOk \in BOOLEAN : ContextMiddleware(r, loadOk)
  \/ LoginRoute
  \/ LogoutRoute
  \/ CallbackBegin
  \/ \E idp \in IdpAnswers, tokenClaims \in ClaimsObjects :
       CallbackResume(idp, tokenClaims)
  \/ \E way \in HandleCallbackWays : handleCallback(way)
  \/ Finalize
  \/ \E applies \in BOOLEAN, way \in GateWays : Gate(applies, way)
  \/ AppRespond
  \/ \E returnTo \in ReturnTos : AppLogin(returnTo)
  \/ Settle
  \/ \E name \in TransientNames : CookieLost(name)




Spec == Init /\ [][Next]_vars

\* ================================================================ claims

\* The request in flight is handled by the callback route.
InCallbackRoute == req.path = "callback" /\ req.method = callbackMethod
\* The async handler has returned.
HandlerReturned == InCallbackRoute /\ obs.cbCount = 1
\* The request is over.
Over == pc \in {"done", "hung"}
\* The exchange ran and threw.
ExchangeFailed == HandlerReturned /\ obs.exchanges = 1 /\ req.openidTokens = Undefined
ExchangeSucceeded == HandlerReturned /\ req.openidTokens # Undefined
\* The state parameter of the request differs from the stored state entry.
StateMismatch == obs.exchanges = 1 /\ req.checks.state # Some(req.state)

ErrorCauses == {obs.errors[i].cause : i \in DOMAIN obs.errors}
ExchangeCauses == {"state", "nonce", "code", "network"}

\* C1: a callback request whose state parameter differs from the stored state
\* entry fails the exchange with the state error, and its handler leaves the
\* session claims (and so the session cookie) as they were when the request
\* arrived, whether or not a session existed; nothing after the handler runs.
C1_StateMismatchWritesNoSession ==
  (HandlerReturned /\ StateMismatch) =>
    /\ obs.errors = <<BadRequest("state")>>
    /\ req.claims = req.claims0
    /\ req.openidTokens = Undefined
    /\ config.appSessionSecret => sessionCookie = req.claims0
    /\ obs.hcRuns = 0 /\ obs.finalized = 0 /\ obs.redirects = <<>>

\* A mismatching callback has been answered while a session existed.
C1_Witness ==
  /\ pc = "done" /\ InCallbackRoute /\ StateMismatch
  /\ req.state = 0 /\ req.checks.state # Undefined
  /\ req.claims0 # Undefined /\ sessionCookie = req.claims0

\* C2: once a callback has consumed the state entry of the latest login, a
\* later callback carrying that state (no login in between) is rejected with
\* the state error whatever code it carries and whatever the provider would
\* answer, and writes no session claims.
C2_ReplayRejected ==
  (HandlerReturned /\ req.replay /\ ~req.malformed) =>
    /\ req.checks.state = Undefined
    /\ obs.errors = <<BadRequest("state")>>
    /\ req.claims = req.claims0 /\ req.openidTokens = Undefined
    /\ config.appSessionSecret => sessionCookie = req.claims0

\* A replay of the callback of the latest login, with its own code, rejected.
C2_Witness ==
  /\ pc = "done" /\ InCallbackRoute /\ req.replay
  /\ req.state = Len(logins) /\ req.code = req.state
  /\ obs.errors = <<BadRequest("state")>>

\* C4: when a callback fails on a state mismatch, the state and the nonce
\* entries are both cleared once the error is with the error-handling chain,
\* and they stay cleared until a login stores new ones.
C4_MismatchClearsEntries ==
  /\ [](("state" \in ErrorCauses) =>
          (transient["state"] = Undefined /\ transient["nonce"] = Undefined))
  /\ [][(logins' = logins) =>
          /\ transient["state"] = Undefined => transient'["state"] = Undefined
          /\ transient["nonce"] = Undefined => transient'["nonce"] = Undefined]_vars

\* The mismatch error has been handed over by a request that arrived with
\* both entries stored.
C4_Witness ==
  /\ pc = "done" /\ "state" \in ErrorCauses
  /\ req.checks.state # Undefined /\ req.checks.nonce # Undefined
  /\ transient["state"] = Undefined /\ transient["nonce"] = Undefined

\* C5: every failure of the callback parameters or of the exchange (state,
\* nonce, code, network) reaches the error-handling chain, as the only error
\* of the request, with status 400.
C5_FailuresAre400 ==
  /\ (HandlerReturned /\ (req.malformed \/ ExchangeFailed)) =>
       /\ Len(obs.errors) = 1
       /\ obs.errors[1].status = 400
       /\ obs.errors[1].cause \in (IF req.malformed THEN {"params"} ELSE ExchangeCauses)
  /\ \A i \in DOMAIN obs.errors :
       obs.errors[i].cause \in ExchangeCauses \cup {"params"} => obs.errors[i].status = 400

\* A network failure of the exchange has been handed over as a 400.
C5_Witness ==
  /\ pc = "done" /\ InCallbackRoute
  /\ obs.errors = <<Err(400, "network")>>

\* The extension handler has continued without an error.
Continued == obs.hcNext >= 1 /\ "handleCallback" \notin ErrorCauses

\* C3 (as stated): on every request handled by the callback route each of
\* nonce, state and returnTo is consumed exactly once, whatever the outcome.
C3_EachConsumedOnce ==
  (HandlerReturned /\ Over) => \A n \in TransientNames : obs.reads[n] = 1

\* C3 (amended): no entry is consumed twice by one request; nonce and state
\* are consumed once each unless callbackParams throws, and then not at all;
\* returnTo is consumed once, by the finalize handler, and only when the
\* exchange succeeded and the extension handler continued without an error.
C3_ConsumedPerOutcome ==
  /\ \A n \in TransientNames : obs.reads[n] <= 1
  /\ HandlerReturned =>
       /\ obs.reads["nonce"] = (IF req.malformed THEN 0 ELSE 1)
       /\ obs.reads["state"] = obs.reads["nonce"]
  /\ (InCallbackRoute /\ Over) =>
       obs.reads["returnTo"] = (IF ExchangeSucceeded /\ Continued THEN 1 ELSE 0)
  /\ ~InCallbackRoute => obs.reads = NoReads

\* A failed exchange has been answered: nonce and state were consumed, and
\* returnTo is still stored.
C3_Witness ==
  /\ pc = "done" /\ ExchangeFailed
  /\ obs.reads = [NoReads EXCEPT !["nonce"] = 1, !["state"] = 1]
  /\ transient["returnTo"] # Undefined

\* C6 (as stated): a network failure of the exchange is reported with a
\* status of the 502/503 class.
C6_NetworkIsUpstreamError ==
  \A i \in DOMAIN obs.errors :
    obs.errors[i].cause = "network" => obs.errors[i].status \in {502, 503}

\* C6 (amended): a network failure of the exchange is reported as a 400, the
\* status of a state or nonce mismatch, and client.callback is called once
\* per request: the exchange is not retried.
C6_NetworkIs400NotRetried ==
  /\ obs.exchanges <= 1
  /\ \A i \in DOMAIN obs.errors :
       obs.errors[i].cause \in {"network", "state", "nonce"} =>
         obs.errors[i].status = 400
  /\ "network" \in ErrorCauses =>
       pc = "done" /\ obs.exchanges = 1 /\ Len(obs.errors) = 1

\* The exchange of a well-placed callback (its state matched) failed on the
\* network and the request was answered.
C6_Witness ==
  /\ pc = "done" /\ "network" \in ErrorCauses
  /\ req.checks.state = Some(req.state)
  /\ obs.exchanges = 1

\* The request is for the callback path with the method that is not the
\* configured one.
WrongMethod == req.path = "callback" /\ req.method # callbackMethod

\* C7 (as stated): a request to the callback path with the wrong method is
\* rejected with a 400-class error.
C7_WrongMethodRejected ==
  (WrongMethod /\ pc = "done") =>
    \E i \in DOMAIN obs.errors : obs.errors[i].status \in 400..499

\* C7 (amended): a request to the callback path with the wrong method is not
\* handled by the callback route: it reads no transient entry, starts no
\* exchange and raises no 400; it falls through to the gate, like a request
\* to a path the router does not serve, and reaches the application unless
\* the gate turns it away.
C7_WrongMethodFallsThrough ==
  WrongMethod =>
    /\ pc \in {"gate", "app", "done"}
    /\ obs.reads = NoReads /\ obs.exchanges = 0 /\ obs.cbCount = 0
    /\ obs.hcRuns = 0 /\ obs.finalized = 0
    /\ \A i \in DOMAIN obs.errors : obs.errors[i].status # 400
    /\ (pc = "done" /\ obs.gated = 0 /\ obs.errors = <<>>) => obs.passed = 1

\* A wrong-method request has reached the application while both entries of
\* a login were stored, and they still are.
C7_Witness ==
  /\ WrongMethod /\ pc = "app" /\ obs.errors = <<>>
  /\ transient["state"] # Undefined /\ transient["nonce"] # Undefined

\* The names the configured filter excludes.
Excluded == {config.identityClaimFilter[i] : i \in DOMAIN config.identityClaimFilter}

\* C8: with session persistence, after a successful callback the session
\* claims are the token set's claims minus exactly the excluded names: an
\* excluded name is absent, any other name has the token set's value, and
\* filtering the result again changes nothing.
C8_ClaimsFiltered ==
  (config.appSessionSecret /\ ExchangeSucceeded) =>
    /\ req.claims # Undefined
    /\ \A n \in ClaimNames :
         req.claims[1][n] = (IF n \in Excluded THEN Absent ELSE req.openidTokens[1][n])
    /\ FilteredClaims(req.claims[1]) = req.claims[1]
    /\ pc = "done" => sessionCookie = req.claims

\* A token set with an email claim was filtered down to sub and saved.
C8_Witness ==
  /\ pc = "done" /\ config.appSessionSecret /\ ExchangeSucceeded
  /\ config.identityClaimFilter = <<"email">>
  /\ req.openidTokens[1]["email"] # Absent
  /\ sessionCookie = Some([NoClaims EXCEPT !["sub"] = req.openidTokens[1]["sub"]])

\* C9: a callback whose exchange succeeded and whose extension handler
\* continued ends with exactly one redirect; the finalize handler sends it to
\* the stored returnTo, which is the one stored by the login the callback
\* belongs to, or to the base URL when none is stored, and clears the entry.
C9_RedirectsToReturnTo ==
  /\ []((ExchangeSucceeded /\ Continued /\ pc # "finalize") =>
          (obs.finalized = 1 /\ Len(obs.redirects) = 1 /\
           transient["returnTo"] = Undefined))
  /\ []((pc = "finalize") =>
          (ExchangeSucceeded /\ Continued /\ obs.redirects = <<>> /\
           req.state = Len(logins) /\
           transient["returnTo"] \in {Undefined, Some(logins[req.state])}))
  /\ [][(pc = "finalize") =>
          /\ obs'.redirects = <<IF transient["returnTo"] = Undefined
                                 THEN baseURL ELSE transient["returnTo"][1]>>
          /\ transient'["returnTo"] = Undefined]_vars

\* A callback has been redirected to a stored returnTo other than the base URL.
C9_Witness ==
  /\ pc = "done" /\ ExchangeSucceeded /\ Continued
  /\ obs.redirects = <<otherURL>> /\ logins[req.state] = otherURL
  /\ transient["returnTo"] = Undefined

\* C10 (as stated): an extension handler that calls its continuation more
\* than once, or never, is detected: an error other than a 400 reaches the
\* error-handling chain.
C10_MisuseDetected ==
  (Over /\ obs.hcRuns = 1 /\ obs.hcNext # 1) =>
    \E i \in DOMAIN obs.errors : obs.errors[i].status # 400

\* C10 (amended): the guard of line 81 is on the callback handler's own
\* continuation, which that handler calls once; the extension handler runs
\* at most once, after a successful exchange, and the finalize redirect never
\* runs twice.  What the extension handler does with its continuation is not
\* checked: when it never calls it the request gets no redirect and no
\* error, and a second call raises no error of the route's own.
C10_FinalizeAtMostOnce ==
  /\ obs.cbCount <= 1 /\ obs.hcRuns <= 1 /\ obs.finalized <= 1
  /\ obs.hcRuns = 1 => (obs.cbCount = 1 /\ ExchangeSucceeded)
  /\ obs.finalized = 1 => Continued
  /\ (Over /\ obs.hcRuns = 1 /\ obs.hcNext = 0) =>
       (obs.finalized = 0 /\ obs.errors = <<>>)
  /\ (obs.hcNext = 2 /\ pc # "finalize") =>
       (obs.finalized = 1 /\ \A i \in DOMAIN obs.errors :
                               obs.errors[i].cause \in {"unauthorized", "headersSent"})

\* The extension handler never continued: the request hangs with no error.
C10_Witness ==
  /\ pc = "hung" /\ obs.hcRuns = 1 /\ obs.hcNext = 0
  /\ obs.errors = <<>> /\ obs.redirects = <<>>

\* The request has been through the gate.
Gated == obs.gated = 1 /\ pc # "gate"
\* The gate turned the request away: a 401, a redirect to the login route,
\* or the failure to send one after a response.
TurnedAway ==
  /\ pc = "done" /\ obs.passed = 0
  /\ \/ \E i \in DOMAIN obs.errors : obs.errors[i].cause \in {"unauthorized", "headersSent"}
     \/ \E i \in DOMAIN obs.redirects : obs.redirects[i] = "loginPath"
\* The gate let the request through to the handlers behind it.
LetThrough ==
  /\ obs.passed = 1 /\ pc \in {"app", "done"}
  /\ \A i \in DOMAIN obs.errors : obs.errors[i].cause \notin {"unauthorized", "headersSent"}
  /\ \A i \in DOMAIN obs.redirects : obs.redirects[i] # "loginPath"

\* C11: with required true, a request that reaches the gate without an
\* authenticated session is turned away (401 or redirect to login) and never
\* reaches the handlers behind the gate; one that came with a session passes,
\* and the gate leaves the request as it was.
C11_GateRejectsUnauthenticated ==
  /\ (config.required = "true" /\ Gated) =>
       /\ IF req.claims0 = Undefined THEN TurnedAway ELSE LetThrough
       /\ obs.cbCount = 0 => (req.claims = req.claims0 /\ req.openidTokens = Undefined)
  /\ (config.required = "true" /\ pc = "app") => req.claims0 # Undefined

\* An unauthenticated request to an unrouted path has been turned away with
\* a 401.
C11_Witness ==
  /\ config.required = "true" /\ Gated /\ req.path = "other"
  /\ req.claims0 = Undefined
  /\ obs.errors = <<Err(401, "unauthorized")>>

\* The request in progress met the failed client: load() rejected.
LoadFailed == "load" \in ErrorCauses

\* C12: when discovery or the client's construction has failed, the router
\* serves no request, and no request is the first to observe the failure.
C12_FailureSurfacedAtConstruction ==
  client = "failed" => (pc = "idle" /\ obs.errors = <<>>)

\* C14: when load() fails the context middleware calls its continuation
\* exactly once, with the error, and the request does not also go on down
\* the normal chain.
C14_LoadFailureContinuesOnce ==
  LoadFailed => (obs.ctxNext = 1 /\ obs.passed = 0)

\* The logout route has answered the request in progress.
LoggedOut ==
  /\ config.routes /\ req.path = "logout" /\ obs.ctxNext = 1
  /\ pc = "done"

\* C13: with the routes enabled a GET to the logout path that reaches the
\* route clears the session and redirects; while the jar holds no session
\* every request sent with it is unauthenticated, and a session comes back
\* with a callback request that succeeded, never otherwise.
C13_LogoutClearsSession ==
  /\ [](LoggedOut => /\ obs.redirects = <<"postLogout">>
                     /\ req.claims = Undefined
                     /\ sessionCookie = Undefined)
  /\ [][(pc = "idle" /\ pc' # "idle" /\ sessionCookie = Undefined) =>
          (req'.claims0 = Undefined /\ ~req'.isAuthenticated)]_vars
  /\ [][(sessionCookie = Undefined /\ sessionCookie' # Undefined) =>
          ExchangeSucceeded']_vars

\* A session is logged out.
C13_Witness == LoggedOut /\ req.claims0 # Undefined /\ sessionCookie = Undefined

\* The exchange of the request in progress threw, and the handler returned.
ExchangeThrew ==
  /\ HandlerReturned /\ obs.exchanges = 1
  /\ ErrorCauses \cap ExchangeCauses # {}

\* C15: when the exchange of a callback request fails, the extension handler
\* and the finalize step do not run for it, no redirect is issued,
\* req.openidTokens stays unset, and the one outcome is the error handed to
\* the error-handling chain; an exchange either sets the tokens or fails so.
C15_FailedExchangeStopsRoute ==
  /\ ExchangeThrew =>
       /\ pc = "done"
       /\ obs.hcRuns = 0 /\ obs.finalized = 0 /\ obs.redirects = <<>>
       /\ req.openidTokens = Undefined
       /\ Len(obs.errors) = 1 /\ obs.errors[1].status = 400
       /\ obs.passed = 0 /\ obs.gated = 0
  /\ (HandlerReturned /\ obs.exchanges = 1 /\ req.openidTokens = Undefined) =>
       ExchangeThrew

\* The provider turned the code down for a request whose state matched.
C15_Witness ==
  /\ ExchangeThrew /\ obs.errors = <<BadRequest("code")>>
  /\ req.checks.state = Some(req.state)

\* C16: a predicate required is evaluated exactly once for a request that
\* reaches the gate (and never for one that does not); when it returned
\* false the request passes whether or not it is authenticated, when it
\* returned true the request fares as under the always-on gate; and when
\* required is false the gate turns no request away.
C16_PredicateGate ==
  /\ config.required = "function" =>
       IF Gated
         THEN /\ Len(obs.predicate) = 1
              /\ ~obs.predicate[1] => LetThrough
              /\ obs.predicate[1] =>
                   IF req.claims0 = Undefined THEN TurnedAway ELSE LetThrough
         ELSE obs.predicate = <<>>
  /\ config.required # "function" => obs.predicate = <<>>
  /\ config.required = "false" =>
       /\ obs.gated = 0
       /\ ErrorCauses \cap {"unauthorized", "headersSent"} = {}
       /\ \A i \in DOMAIN obs.redirects : obs.redirects[i] # "loginPath"

\* The predicate let an unauthenticated request through.
C16_Witness ==
  /\ config.required = "function" /\ Gated
  /\ obs.predicate = <<FALSE>> /\ req.claims0 = Undefined /\ pc = "app"

\* The request in progress is the callback of an attempt that a later login
\* with the same jar has followed.
CallbackOfEarlier ==
  /\ HandlerReturned /\ ~req.malformed
  /\ req.state \in 1..(Len(logins) - 1)

\* The request in progress is the callback of the latest of several attempts.
CallbackOfLatest ==
  /\ HandlerReturned /\ ~req.malformed
  /\ Len(logins) >= 2 /\ req.state = Len(logins)

\* C17: a login overwrites the nonce, state and returnTo entries of the jar
\* with its own; once a second login has been handled the callback of the
\* first attempt fails the state check and writes no session, whatever
\* code it carries, and the callback of the second attempt succeeds only
\* with the entries of the second login.
C17_SecondLoginOverwrites ==
  /\ [][Len(logins') = Len(logins) + 1 =>
          transient' = LoginStored(Len(logins'), logins'[Len(logins')])]_vars
  /\ [](CallbackOfEarlier =>
          /\ obs.errors = <<BadRequest("state")>>
          /\ req.openidTokens = Undefined
          /\ req.claims = req.claims0
          /\ config.appSessionSecret => sessionCookie = req.claims0)
  /\ []((CallbackOfLatest /\ ExchangeSucceeded) =>
          /\ req.checks = [nonce |-> Some(req.state), state |-> Some(req.state)]
          /\ req.code = req.state)

\* The callback of the first attempt met the entries of the second login.
C17_Witness ==
  /\ CallbackOfEarlier /\ req.code = 1 /\ req.state = 1
  /\ req.checks = [nonce |-> Some(2), state |-> Some(2)]
  /\ obs.errors = <<BadRequest("state")>>

\* The callback of the second attempt succeeded.
C17_SecondSucceeds ==
  /\ CallbackOfLatest /\ ExchangeSucceeded
  /\ config.appSessionSecret /\ req.claims # Undefined

\* C18: without appSessionSecret the callback handler writes no session
\* claims on any request; a successful exchange changes req.openidTokens
\* and nothing else in the request, and the extension handler is next.
C18_NoSecretNoSessionWrite ==
  /\ [](~config.appSessionSecret =>
          (req.claims = Undefined /\ sessionCookie = Undefined))
  /\ [][(~config.appSessionSecret /\ pc = "exchange") =>
          /\ req' = [req EXCEPT !.openidTokens = req'.openidTokens]
          /\ req'.openidTokens # Undefined => pc' = "handleCallback"
          /\ req'.openidTokens = Undefined => pc' = "done"]_vars

\* A callback succeeded with no session configured.
C18_Witness ==
  /\ ~config.appSessionSecret /\ pc = "handleCallback"
  /\ req.openidTokens \in {Some(c) : c \in TokenClaims}
  /\ req.claims = Undefined

\* The session holds the filtered claims of the request's token set.
ClaimsAssigned ==
  /\ req.openidTokens # Undefined
  /\ req.claims = Some(FilteredClaims(req.openidTokens[1]))

\* C19: with appSessionSecret set, the session holds the filtered claims of
\* the new token set when the extension handler is about to run, and still
\* holds them after it ran, whether it continued, passed an error or ended
\* the response; the response then carries them in the session cookie.
C19_ClaimsAssignedBeforeHandler ==
  config.appSessionSecret =>
    /\ pc = "handleCallback" => ClaimsAssigned
    /\ obs.hcRuns >= 1 =>
         /\ ClaimsAssigned
         /\ pc = "done" => sessionCookie = req.claims

\* The extension handler passed an error over a session that did not exist
\* before the request.
C19_Witness ==
  /\ config.appSessionSecret /\ obs.hcRuns = 1 /\ pc = "done"
  /\ "handleCallback" \in ErrorCauses
  /\ req.claims0 = Undefined /\ ClaimsAssigned /\ sessionCookie = req.claims

\* The request in progress matched the login or the logout route.
InLoginOrLogoutRoute == config.routes /\ req.path \in {"login", "logout"}
\* The gate has the request, or has had it.
AtGate == pc = "gate" \/ obs.gated >= 1

\* C20 as stated: with required true and the routes enabled, an
\* unauthenticated request that the login, logout or callback route matched
\* (its context loaded) is answered by that route and never comes before
\* the gate.
C20_GateNeverSeesRoutes ==
  (config.required = "true" /\ config.routes /\ obs.ctxNext = 1
     /\ req.claims0 = Undefined /\ (InLoginOrLogoutRoute \/ InCallbackRoute)) =>
    /\ ~AtGate /\ ~TurnedAway
    /\ (req.path = "login" /\ pc = "done") => obs.redirects = <<"idp">>

\* C20, amended: a request that the login or the logout route matched never
\* comes before the gate, and an unauthenticated GET to the login path whose
\* context loaded is answered by the login initiator.  A request that the
\* callback route matched is processed by the callback handler first; it
\* comes before the gate, which then treats it as any other request, only
\* after the finalize step has redirected, when the extension handler called
\* its continuation more than once.  A request whose context failed to load
\* never comes before the gate.
C20_RoutesBeforeGate ==
  /\ InLoginOrLogoutRoute => (~AtGate /\ ~TurnedAway)
  /\ (InLoginOrLogoutRoute /\ req.path = "login" /\ obs.ctxNext = 1 /\ pc = "done") =>
       obs.redirects = <<"idp">>
  /\ (InCallbackRoute /\ obs.ctxNext = 1 /\ pc # "callback") =>
       (obs.exchanges = 1 \/ obs.cbCount = 1)
  /\ (InCallbackRoute /\ AtGate) =>
       /\ obs.hcNext = 2 /\ obs.finalized = 1
       /\ ExchangeSucceeded /\ Len(obs.redirects) >= 1
  /\ (InCallbackRoute /\ Gated /\ config.required = "true") =>
       IF req.claims0 = Undefined THEN TurnedAway ELSE LetThrough
  /\ obs.ctxNext = 2 => ~AtGate

\* A callback without a session succeeded, its extension handler continued
\* twice, and the always-on gate turned the request away after the redirect.
C20_Witness ==
  /\ config.required = "true" /\ config.routes
  /\ InCallbackRoute /\ req.claims0 = Undefined
  /\ obs.hcNext = 2 /\ obs.finalized = 1 /\ Gated /\ TurnedAway

====
